---- MODULE Spec2Model ----
(***************************************************************************)
(* Model of the chat orchestration layer of app.py: the process-wide       *)
(* RUNNER_CACHE and INITIALIZED_SESSIONS, get_runner, and the /chat        *)
(* handler (runner lookup, session initialisation, event aggregation).     *)
(*                                                                         *)
(* Each request to /chat is one "turn".  Flask serves every request on its *)
(* own thread and the handler is a coroutine, so the steps of different    *)
(* turns interleave between statements and at every await.                 *)
(*                                                                         *)
(* Python strings are sequences of characters; None and a missing          *)
(* attribute are tagged records so that they never compare equal to text.  *)
(***************************************************************************)
EXTENDS Integers, Sequences, FiniteSets, TLC

\* ---------------------------------------------------------------- bounds
MaxTurns == 2      \* number of /chat requests in one process lifetime
MaxEvents == 3     \* events delivered by one run_async stream
MaxParts == 2      \* parts of one structured event
MaxFormat == 4     \* length of a tool's format argument, in chunks
StreamLen == 1     \* events of one stream while several turns interleave

\* ------------------------------------------------------------ value model
Users == {"u1", "u2"}
Turns == 1 .. MaxTurns

Absent == [kind |-> "absent"]               \* hasattr(x, name) is False
None == [kind |-> "none"]                   \* attribute present, value None
Str(s) == [kind |-> "str", s |-> s]         \* attribute present, a str

APP_NAME == <<"a", "g", "e", "n", "t", "s">>

\* session_id as it would be if it were derived from the constant user_id
\* of lines 206 and 221 instead of current_user.id.
session_id_Shared(u) == <<"session_", "web_user">>

\* f"session_{current_user.id}"
session_id(u) == <<"session_", u>>

Keys == {session_id(u) : u \in Users}

\* User.__init__: user_dict.get('knowledge_level', 'Beginner')
Missing == "<missing>"
StoredLevels == {Missing, "Beginner", "Intermediate", "Expert", "Novice"}
knowledge_level(tier) == IF tier = Missing THEN "Beginner" ELSE tier

\* get_system_prompt: the prompt as the sequence of its sentences
base_prompt == <<"You are Rotom-Coach, a Grandmaster Pokemon Coach.",
                 "1. Ask for Format if missing.",
                 "2. Use get_usage_stats for data.",
                 "3. OUTPUT TEAMS IN SHOWDOWN IMPORTABLE FORMAT INSIDE CODE BLOCKS.">>

\* get_system_prompt as it would be with the two suffixes exchanged.
get_system_prompt_Swapped(lvl) ==
    IF lvl = "Expert"
        THEN base_prompt \o <<"Explain terms (STAB, EVs). Be educational.">>
    ELSE IF lvl = "Beginner"
        THEN base_prompt \o <<"Be concise. Focus on calcs and win-cons.">>
    ELSE base_prompt

get_system_prompt(lvl) ==
    IF lvl = "Beginner"
        THEN base_prompt \o <<"Explain terms (STAB, EVs). Be educational.">>
    ELSE IF lvl = "Expert"
        THEN base_prompt \o <<"Be concise. Focus on calcs and win-cons.">>
    ELSE base_prompt

\* ------------------------------------------------------------------ state
VARIABLES
    RUNNER_CACHE,           \* dict session_id -> Runner (index into runners)
    INITIALIZED_SESSIONS,   \* set of session_id
    runners,                \* every InMemoryRunner constructed so far
    builtFor,               \* log: the session_id each runner was built for
    createCalls,            \* log: create_session calls made per session_id
    pc,                     \* position of each turn in chat()
    user,                   \* current_user.id of the turn
    stored,                 \* log: knowledge_level in the turn's user record
    level,                  \* current_user.knowledge_level of the turn
    runner,                 \* local `runner` of the turn (0: unbound)
    final,                  \* local `final` of the turn
    events,                 \* log: events the turn's stream has delivered
    ending,                 \* log: how the turn's stream finished
    result,                 \* what the turn returned
    format,                 \* the format argument the agent passes to tools
    tool                    \* per tool function: position, locals, return

vars == <<RUNNER_CACHE, INITIALIZED_SESSIONS, runners, builtFor, createCalls,
          pc, user, stored, level, runner, final, events, ending, result,
          format, tool>>

NoUser == "<nobody>"
NoResult == [kind |-> "none"]
Response(text) == [kind |-> "response", body |-> text]
Error(msg) == [kind |-> "error", body |-> msg]

Key(t) == session_id(user[t])

ToolNames == {"get_usage_stats", "get_sample_teams"}
IdleTool == [pc |-> "idle", clean_format |-> <<>>, outcome |-> "", ret |-> None]

chatVars == <<RUNNER_CACHE, INITIALIZED_SESSIONS, runners, builtFor,
              createCalls, pc, user, stored, level, runner, final, events,
              ending, result>>

Init ==
    /\ RUNNER_CACHE = [k \in {} |-> 0]
    /\ INITIALIZED_SESSIONS = {}
    /\ runners = <<>>
    /\ builtFor = <<>>
    /\ createCalls = [k \in Keys |-> 0]
    /\ pc = [t \in Turns |-> "idle"]
    /\ user = [t \in Turns |-> NoUser]
    /\ stored = [t \in Turns |-> Missing]
    /\ level = [t \in Turns |-> "Beginner"]
    /\ runner = [t \in Turns |-> 0]
    /\ final = [t \in Turns |-> <<>>]
    /\ events = [t \in Turns |-> <<>>]
    /\ ending = [t \in Turns |-> NoResult]
    /\ result = [t \in Turns |-> NoResult]
    /\ format = None
    /\ tool = [n \in ToolNames |-> IdleTool]

\* ------------------------------------------------------- get_runner steps
\* chat, lines 195-198: a request arrives for user u whose stored profile
\* holds tier `tier`; the handler derives session_id and calls get_runner.
\* Requests are numbered in their order of arrival.
Request(t, u, tier) ==
    /\ pc[t] = "idle"
    /\ \A s \in Turns : s < t => pc[s] # "idle"
    /\ user' = [user EXCEPT ![t] = u]
    /\ stored' = [stored EXCEPT ![t] = tier]
    /\ level' = [level EXCEPT ![t] = knowledge_level(tier)]
    /\ pc' = [pc EXCEPT ![t] = "get_runner"]
    /\ UNCHANGED <<format, tool, builtFor, RUNNER_CACHE, INITIALIZED_SESSIONS, runners, createCalls,
                   runner, final, events, ending, result>>

\* CacheLookup as it would be if the cached entry were never reused.
CacheLookup_Rebuild(t) ==
    /\ pc[t] = "get_runner"
    /\ pc' = [pc EXCEPT ![t] = "construct"]
    /\ UNCHANGED <<format, tool, stored, builtFor, RUNNER_CACHE, INITIALIZED_SESSIONS, runners,
                   createCalls, user, level, runner, final, events, ending,
                   result>>

\* get_runner, lines 110-111: the membership test and the cached return.
CacheLookup(t) ==
    /\ pc[t] = "get_runner"
    /\ IF Key(t) \in DOMAIN RUNNER_CACHE
          THEN /\ runner' = [runner EXCEPT ![t] = RUNNER_CACHE[Key(t)]]
               /\ pc' = [pc EXCEPT ![t] = "ensure_session"]
          ELSE /\ runner' = runner
               /\ pc' = [pc EXCEPT ![t] = "construct"]
    /\ UNCHANGED <<format, tool, stored, builtFor, RUNNER_CACHE, INITIALIZED_SESSIONS, runners, createCalls,
                   user, level, final, events, ending, result>>

\* The Runner built by lines 113-123: the agent's instruction and the
\* runner's own in-memory session store, empty at construction.
NewRunner(lvl) == [instruction |-> get_system_prompt(lvl), sessions |-> {}]

\* get_runner, lines 113-123: model, agent and InMemoryRunner are built.
Construct(t) ==
    /\ pc[t] = "construct"
    /\ runners' = Append(runners, NewRunner(level[t]))
    /\ builtFor' = Append(builtFor, Key(t))
    /\ runner' = [runner EXCEPT ![t] = Len(runners) + 1]
    /\ pc' = [pc EXCEPT ![t] = "store"]
    /\ UNCHANGED <<format, tool, stored, RUNNER_CACHE, INITIALIZED_SESSIONS, createCalls, user,
                   level, final, events, ending, result>>

\* RUNNER_CACHE[session_id] = runner
CachePut(cache, k, r) ==
    [x \in (DOMAIN cache) \cup {k} |-> IF x = k THEN r ELSE cache[x]]

\* Store as it would be without line 124.
Store_Skip(t) ==
    /\ pc[t] = "store"
    /\ pc' = [pc EXCEPT ![t] = "ensure_session"]
    /\ UNCHANGED <<format, tool, stored, builtFor, RUNNER_CACHE,
                   INITIALIZED_SESSIONS, runners, createCalls, user, level,
                   runner, final, events, ending, result>>

\* get_runner, lines 124-125: the store and the return.
Store(t) ==
    /\ pc[t] = "store"
    /\ RUNNER_CACHE' = CachePut(RUNNER_CACHE, Key(t), runner[t])
    /\ pc' = [pc EXCEPT ![t] = "ensure_session"]
    /\ UNCHANGED <<format, tool, stored, builtFor, INITIALIZED_SESSIONS, runners, createCalls, user, level,
                   runner, final, events, ending, result>>

\* --------------------------------------------------- session initialisation
\* The key of a session in a runner's session service: app_name, user_id and
\* session_id as passed on lines 205-207 (and again to run_async, line 221).
SessionKey(sid) == <<APP_NAME, "web_user", sid>>

\* chat, lines 202-208: the membership test; when the key is absent the
\* coroutine calls create_session on its runner and suspends on the await.
EnsureSession(t) ==
    /\ pc[t] = "ensure_session"
    /\ IF Key(t) \notin INITIALIZED_SESSIONS
          THEN /\ createCalls' = [createCalls EXCEPT ![Key(t)] = @ + 1]
               /\ pc' = [pc EXCEPT ![t] = "await_create"]
          ELSE /\ createCalls' = createCalls
               /\ pc' = [pc EXCEPT ![t] = "generate"]
    /\ UNCHANGED <<format, tool, stored, builtFor, RUNNER_CACHE, INITIALIZED_SESSIONS, runners, user, level,
                   runner, final, events, ending, result>>

\* CreateReturns as it would be without line 209.
CreateReturns_NoMark(t) ==
    /\ pc[t] = "await_create"
    /\ runners' = [runners EXCEPT ![runner[t]].sessions =
                       @ \cup {SessionKey(Key(t))}]
    /\ pc' = [pc EXCEPT ![t] = "generate"]
    /\ UNCHANGED <<format, tool, stored, builtFor, RUNNER_CACHE, INITIALIZED_SESSIONS, createCalls,
                   user, level, runner, final, events, ending, result>>

\* chat, lines 204-209: create_session returns; the session is in the store
\* of the runner it was called on and the key is marked initialised.
CreateReturns(t) ==
    /\ pc[t] = "await_create"
    /\ runners' = [runners EXCEPT ![runner[t]].sessions =
                       @ \cup {SessionKey(Key(t))}]
    /\ INITIALIZED_SESSIONS' = INITIALIZED_SESSIONS \cup {Key(t)}
    /\ pc' = [pc EXCEPT ![t] = "generate"]
    /\ UNCHANGED <<format, tool, stored, builtFor, RUNNER_CACHE, createCalls, user, level, runner, final,
                   events, ending, result>>

\* CreateRaises as it would be without the handler of lines 210-213: the
\* exception leaves chat() and the turn ends with it.
CreateRaises_Propagate(t) ==
    /\ pc[t] = "await_create"
    /\ result' = [result EXCEPT ![t] = Error(<<"x">>)]
    /\ pc' = [pc EXCEPT ![t] = "done"]
    /\ UNCHANGED <<format, tool, stored, builtFor, RUNNER_CACHE, INITIALIZED_SESSIONS, runners,
                   createCalls, user, level, runner, final, events, ending>>

\* chat, lines 210-213: create_session raises; the handler marks the key
\* initialised all the same and prints the error.
CreateRaises(t) ==
    /\ pc[t] = "await_create"
    /\ INITIALIZED_SESSIONS' = INITIALIZED_SESSIONS \cup {Key(t)}
    /\ pc' = [pc EXCEPT ![t] = "generate"]
    /\ UNCHANGED <<format, tool, stored, builtFor, RUNNER_CACHE, runners, createCalls, user, level, runner,
                   final, events, ending, result>>

\* ------------------------------------------------------ event aggregation
\* `x.text` as a condition: a non-empty str is truthy, None and "" are not.
Truthy(v) == v.kind = "str" /\ v.s # <<>>

\* chat, lines 225-226: the loop over event.content.parts.  A part without a
\* text attribute is passed over; `final += p.text` with p.text None raises
\* TypeError, which leaves the loop with what was appended before it.
RECURSIVE AppendParts(_, _)
AppendParts(acc, parts) ==
    IF parts = <<>> THEN acc
    ELSE LET p == Head(parts) IN
         IF p.kind = "absent" THEN AppendParts(acc, Tail(parts))
         ELSE IF p.kind = "none" THEN acc
         ELSE AppendParts(acc \o p.s, Tail(parts))

\* HandleEvent as it would be if line 223 appended (final += event.text).
HandleEvent_Append(acc, e) ==
    IF e.text.kind # "absent" /\ Truthy(e.text) THEN acc \o e.text.s
    ELSE IF e.content.kind # "absent" THEN
         IF e.content.kind = "none" THEN acc
         ELSE IF e.content.parts.kind # "list" THEN acc
         ELSE AppendParts(acc, e.content.parts.items)
    ELSE acc

\* chat, lines 222-227: one iteration of the loop over the event stream.
\* An event is [text, content]; content is Absent, None or an object whose
\* parts attribute is None or a list.  Reading .parts of None and iterating
\* None raise inside the inner try, and `except: continue` goes on.
HandleEvent(acc, e) ==
    IF e.text.kind # "absent" /\ Truthy(e.text) THEN e.text.s
    ELSE IF e.content.kind # "absent" THEN
         IF e.content.kind = "none" THEN acc
         ELSE IF e.content.parts.kind # "list" THEN acc
         ELSE AppendParts(acc, e.content.parts.items)
    ELSE acc

\* chat, lines 216-221: the message is wrapped, final = "" and run_async is
\* called on the turn's runner.
Generate(t) ==
    /\ pc[t] = "generate"
    /\ final' = [final EXCEPT ![t] = <<>>]
    /\ pc' = [pc EXCEPT ![t] = "streaming"]
    /\ UNCHANGED <<format, tool, stored, builtFor, RUNNER_CACHE, INITIALIZED_SESSIONS, runners, createCalls,
                   user, level, runner, events, ending, result>>

\* chat, lines 221-227: the stream yields event e, of at most `most` events.
Event(t, e, most) ==
    /\ pc[t] = "streaming"
    /\ Len(events[t]) < most
    /\ final' = [final EXCEPT ![t] = HandleEvent(final[t], e)]
    /\ events' = [events EXCEPT ![t] = Append(@, e)]
    /\ UNCHANGED <<format, tool, stored, builtFor, RUNNER_CACHE, INITIALIZED_SESSIONS, runners, createCalls,
                   pc, user, level, runner, ending, result>>

\* chat, line 230: the stream is exhausted and the handler returns `final`.
StreamEnds(t) ==
    /\ pc[t] = "streaming"
    /\ ending' = [ending EXCEPT ![t] = [kind |-> "end"]]
    /\ result' = [result EXCEPT ![t] = Response(final[t])]
    /\ pc' = [pc EXCEPT ![t] = "done"]
    /\ UNCHANGED <<format, tool, stored, builtFor, RUNNER_CACHE, INITIALIZED_SESSIONS, runners, createCalls,
                   user, level, runner, final, events>>

\* StreamRaises as it would be if line 228 returned the partial reply.
StreamRaises_Partial(t, msg) ==
    /\ pc[t] = "streaming"
    /\ ending' = [ending EXCEPT ![t] = [kind |-> "raise", msg |-> msg]]
    /\ result' = [result EXCEPT ![t] = Response(final[t])]
    /\ pc' = [pc EXCEPT ![t] = "done"]
    /\ UNCHANGED <<format, tool, stored, builtFor, RUNNER_CACHE, INITIALIZED_SESSIONS, runners,
                   createCalls, user, level, runner, final, events>>

\* StreamRaises as it would be if a failed turn dropped its conversation.
StreamRaises_Evict(t, msg) ==
    /\ pc[t] = "streaming"
    /\ ending' = [ending EXCEPT ![t] = [kind |-> "raise", msg |-> msg]]
    /\ result' = [result EXCEPT ![t] = Error(msg)]
    /\ pc' = [pc EXCEPT ![t] = "done"]
    /\ RUNNER_CACHE' =
           [k \in DOMAIN RUNNER_CACHE \ {Key(t)} |-> RUNNER_CACHE[k]]
    /\ INITIALIZED_SESSIONS' = INITIALIZED_SESSIONS \ {Key(t)}
    /\ UNCHANGED <<format, tool, stored, builtFor, runners, createCalls, user, level, runner,
                   final, events>>

\* StreamRaises as it would be without the handler of line 228: the
\* exception leaves chat() and the turn returns nothing.
StreamRaises_Propagate(t, msg) ==
    /\ pc[t] = "streaming"
    /\ ending' = [ending EXCEPT ![t] = [kind |-> "raise", msg |-> msg]]
    /\ pc' = [pc EXCEPT ![t] = "done"]
    /\ UNCHANGED <<format, tool, stored, builtFor, RUNNER_CACHE,
                   INITIALIZED_SESSIONS, runners, createCalls, user, level,
                   runner, final, events, result>>

\* chat, line 228: run_async or its stream raises an Exception whose str()
\* is msg; the handler returns it as the error.
StreamRaises(t, msg) ==
    /\ pc[t] = "streaming"
    /\ ending' = [ending EXCEPT ![t] = [kind |-> "raise", msg |-> msg]]
    /\ result' = [result EXCEPT ![t] = Error(msg)]
    /\ pc' = [pc EXCEPT ![t] = "done"]
    /\ UNCHANGED <<format, tool, stored, builtFor, RUNNER_CACHE, INITIALIZED_SESSIONS, runners, createCalls,
                   user, level, runner, final, events>>

\* ------------------------------------------------------------ event shapes
Texts == {<<"a">>, <<"b">>}
ErrMsgs == {<<"x">>, <<"y">>}

SeqsUpTo(S, n) == UNION {[1 .. k -> S] : k \in 0 .. n}
Parts(items) == [kind |-> "obj", parts |-> [kind |-> "list", items |-> items]]
Ev(text, content) == [text |-> text, content |-> content]

\* event.text is a non-empty str (line 223); content, if any, is not read
PlainEvents ==
    {Ev(Str(s), Absent) : s \in Texts}
        \cup {Ev(Str(<<"a">>), Parts(<<Str(<<"b">>)>>))}

\* neither branch of lines 223-224 applies
UnrecognizedEvents == {Ev(Absent, Absent), Ev(Str(<<>>), Absent)}

\* event.content.parts is a list whose parts' text is drawn from vals
StructuredEvents(vals) ==
    {Ev(Absent, Parts(ps)) : ps \in SeqsUpTo(vals, MaxParts)}

\* event.text is there but falsy (None, ""), so line 224 reads the content
FalsyTextEvents ==
    {Ev(None, Parts(<<Str(<<"b">>)>>)), Ev(Str(<<>>), Parts(<<Str(<<"a">>)>>))}

TextParts == {Str(s) : s \in Texts}
AnyParts == TextParts \cup {Absent, None}

\* event.content is None, or event.content.parts is None
BrokenEvents ==
    {Ev(Absent, None), Ev(None, [kind |-> "obj", parts |-> None])}

WellFormedEvents ==
    PlainEvents \cup UnrecognizedEvents \cup StructuredEvents(TextParts)
        \cup FalsyTextEvents
SoundEvents == WellFormedEvents \cup BrokenEvents
AllEvents == SoundEvents \cup StructuredEvents(AnyParts)
DeltaEvents == {Ev(Absent, Parts(<<Str(<<"b">>)>>))}

\* --------------------------------------------------------- specifications
\* The steps of turn t after its request has arrived: its stream yields at
\* most `most` events drawn from evs, and may raise with a message of msgs.
Steps(t, evs, most, msgs) ==
    \/ CacheLookup(t)
    \/ Construct(t)
    \/ Store(t)
    \/ EnsureSession(t)
    \/ CreateReturns(t)
    \/ CreateRaises(t)
    \/ Generate(t)
    \/ \E e \in evs : Event(t, e, most)
    \/ StreamEnds(t)
    \/ \E msg \in msgs : StreamRaises(t, msg)

\* Concurrent turns: any interleaving of the steps of MaxTurns requests.
\* The turns share no aggregation state and no turn reads another's tier,
\* so one event shape is delivered and one tier is stored.
Next ==
    \E t \in Turns :
        \/ \E u \in Users : Request(t, u, "Expert")
        \/ Steps(t, DeltaEvents, StreamLen, {<<"x">>})

Spec == Init /\ [][Next]_vars

\* Serial turns: a request arrives only when every earlier one has returned.
Serial(t) == \A s \in Turns : s < t => pc[s] = "done"

NextSeq ==
    \E t \in Turns :
        \/ \E u \in Users, tier \in StoredLevels :
               Serial(t) /\ Request(t, u, tier)
        \/ Steps(t, DeltaEvents, StreamLen, {<<"x">>})

SpecSeq == Init /\ [][NextSeq]_vars

\* One turn over every stream of at most MaxEvents events that are well
\* formed or broken as a whole (content None, parts None).
NextTurn ==
    \/ \E u \in Users : Request(1, u, Missing)
    \/ Steps(1, SoundEvents, MaxEvents, ErrMsgs)

SpecTurn == Init /\ [][NextTurn]_vars

\* One turn over every stream of at most MaxEvents events of any shape,
\* structured events with parts that carry no text included.
NextAgg ==
    \/ Request(1, "u1", Missing)
    \/ Steps(1, AllEvents, MaxEvents, ErrMsgs)

SpecAgg == Init /\ [][NextAgg]_vars

\* A session for the turn's key is in the store of the turn's own runner.
SessionExists(t) == SessionKey(Key(t)) \in runners[runner[t]].sessions

\* Concurrent turns with a session service that raises from create_session
\* only when the session is already in the store it is called on.
NextStrict ==
    \E t \in Turns :
        \/ \E u \in Users : Request(t, u, "Expert")
        \/ CacheLookup(t)
        \/ Construct(t)
        \/ Store(t)
        \/ EnsureSession(t)
        \/ CreateReturns(t)
        \/ pc[t] = "await_create" /\ SessionExists(t) /\ CreateRaises(t)
        \/ Generate(t)
        \/ \E e \in DeltaEvents : Event(t, e, StreamLen)
        \/ StreamEnds(t)
        \/ StreamRaises(t, <<"x">>)

SpecStrict == Init /\ [][NextStrict]_vars

\* Concurrent turns under the scheduling the claims on termination assume:
\* a runnable handler is run, an awaited create_session returns or raises,
\* and a stream ends or raises.  The events delivered are faulty ones and
\* all turns are of one conversation, where they interfere most.
NextLive ==
    \E t \in Turns :
        \/ Request(t, "u1", "Expert")
        \/ Steps(t, {Ev(Absent, None)}, StreamLen, {<<"x">>})

Fairness ==
    \A t \in Turns :
        /\ WF_vars(CacheLookup(t) \/ Construct(t) \/ Store(t)
                       \/ EnsureSession(t) \/ Generate(t))
        /\ WF_vars(CreateReturns(t) \/ CreateRaises(t))
        /\ WF_vars(StreamEnds(t) \/ StreamRaises(t, <<"x">>))

SpecLive == Init /\ [][NextLive]_vars /\ Fairness

\* ------------------------------------------------------------------ tools
\* A format string is a sequence of chunks: pieces of text that the
\* normalisation treats as a whole.  " " is a space, "\t" other whitespace.
Chunks == {"gen9", "ou", "GEN9", "OU", "x", " ", "\t"}
Formats == UNION {[1 .. k -> Chunks] : k \in 0 .. MaxFormat}

\* str.lower()
lower(s) ==
    [i \in 1 .. Len(s) |->
        IF s[i] = "GEN9" THEN "gen9" ELSE IF s[i] = "OU" THEN "ou" ELSE s[i]]

\* str.strip(): leading and trailing whitespace goes
IsSpace(c) == c \in {" ", "\t"}
RECURSIVE lstrip(_)
lstrip(s) == IF s # <<>> /\ IsSpace(Head(s)) THEN lstrip(Tail(s)) ELSE s
RECURSIVE rstrip(_)
rstrip(s) ==
    IF s # <<>> /\ IsSpace(s[Len(s)]) THEN rstrip(SubSeq(s, 1, Len(s) - 1))
    ELSE s
strip(s) == rstrip(lstrip(s))

\* str.replace(" ", "")
NotBlank(c) == c # " "
remove_spaces(s) == SelectSeq(s, NotBlank)

\* `sub in s`
Contains(s, sub) ==
    \E i \in 1 .. Len(s) :
        i + Len(sub) - 1 <= Len(s) /\ SubSeq(s, i, i + Len(sub) - 1) = sub

gen9ou == <<"gen9", "ou">>

\* get_usage_stats, lines 76-77
usage_clean_format(f) ==
    LET clean_format == remove_spaces(strip(lower(f)))
    IN  IF Contains(clean_format, gen9ou) THEN gen9ou ELSE clean_format

\* get_sample_teams, line 86
teams_clean_format(f) == remove_spaces(strip(lower(f)))

clean_format_of(n, f) ==
    IF n = "get_usage_stats" THEN usage_clean_format(f)
    ELSE teams_clean_format(f)

\* What the GET of lines 80 and 89 can come to: requests.get raises,
\* raise_for_status raises, response.json() raises, or the body is JSON of
\* one of the five kinds json() can return.
Outcomes == {"network_error", "http_error", "not_json", "json_object",
             "json_array", "json_string", "json_number", "json_null"}

\* get_usage_stats, lines 81-83: data.keys() needs a dict, anything else
\* raises inside the try.
usage_return(clean_format, outcome) ==
    IF outcome = "json_object"
        THEN Str(<<"Top 20 Usage: ", outcome>>)
        ELSE Str(<<"Stats not found for ">> \o clean_format \o <<".">>)

\* get_sample_teams, lines 90-91: response.json()[:2] slices a list and a
\* str alike; a dict, a number and null raise inside the try.
teams_return(clean_format, outcome) ==
    IF outcome \in {"json_array", "json_string"}
        THEN Str(<<"Sample Teams: ", outcome>>)
        ELSE Str(<<"No samples for ">> \o clean_format \o <<".">>)

return_of(n, clean_format, outcome) ==
    IF n = "get_usage_stats" THEN usage_return(clean_format, outcome)
    ELSE teams_return(clean_format, outcome)

\* The agent settles on the format string f it passes to its tools.
Ask(f) ==
    /\ format = None
    /\ format' = Str(f)
    /\ UNCHANGED <<tool, chatVars>>

\* Tool n is called: lines 76-78 and 86-87, up to the GET being sent.
Invoke(n) ==
    /\ format # None
    /\ tool[n].pc = "idle"
    /\ tool' = [tool EXCEPT ![n] =
                   [@ EXCEPT !.pc = "get",
                             !.clean_format = clean_format_of(n, format.s)]]
    /\ UNCHANGED <<format, chatVars>>

\* The GET of tool n comes to `outcome` and the tool returns: lines 79-83
\* and 88-91.
Respond(n, outcome) ==
    /\ tool[n].pc = "get"
    /\ tool' = [tool EXCEPT ![n] =
                   [@ EXCEPT !.pc = "returned",
                             !.outcome = outcome,
                             !.ret = return_of(n, tool[n].clean_format,
                                              outcome)]]
    /\ UNCHANGED <<format, chatVars>>

\* Both tools called on every format string of at most MaxFormat chunks.
NextTools ==
    \/ \E f \in Formats : Ask(f)
    \/ \E n \in ToolNames : Invoke(n)
    \/ \E n \in ToolNames, outcome \in Outcomes : Respond(n, outcome)

SpecTools == Init /\ [][NextTools]_vars

\* ------------------------------------------------------------------ claims
\* get_runner has returned to turn t: its local `runner` is bound.
HasRunner(t) == pc[t] \notin {"idle", "get_runner", "construct", "store"}

BuiltFor(k) == {i \in 1 .. Len(builtFor) : builtFor[i] = k}
StartedKeys == {Key(t) : t \in {x \in Turns : pc[x] # "idle"}}

\* C1: for every conversation key, in every interleaving of chat turns, at
\* most one Runner is ever constructed for the key, and all turns of the
\* conversation run on the same Runner.
OneRunnerPerKey ==
    /\ \A k \in Keys : Cardinality(BuiltFor(k)) <= 1
    /\ \A t1, t2 \in Turns :
           (HasRunner(t1) /\ HasRunner(t2) /\ Key(t1) = Key(t2))
               => runner[t1] = runner[t2]

\* C2: for every conversation key, create_session is invoked at most once in
\* the process lifetime, in every interleaving of chat turns.
CreateSessionOnce == \A k \in Keys : createCalls[k] <= 1

\* C9: whenever the generation call of a turn for key k is in flight, a
\* session-creation attempt for k has been made and has completed: k is in
\* INITIALIZED_SESSIONS.
GenerationAfterInit ==
    \A t \in Turns :
        pc[t] = "streaming"
            => Key(t) \in INITIALIZED_SESSIONS /\ createCalls[Key(t)] >= 1

\* C9 witness: a generation call is in flight for a key while another turn
\* of the same key is still suspended in its own create_session call.
GenerationAfterInitWitness ==
    \E t1, t2 \in Turns :
        /\ pc[t1] = "streaming"
        /\ pc[t2] = "await_create"
        /\ Key(t1) = Key(t2)

\* C10: RUNNER_CACHE and INITIALIZED_SESSIONS only grow, whatever a turn
\* returns, and the cache never holds more entries than there are distinct
\* conversation keys that have started a chat turn.
CachesOnlyGrow ==
    [][/\ DOMAIN RUNNER_CACHE \subseteq DOMAIN RUNNER_CACHE'
       /\ INITIALIZED_SESSIONS \subseteq INITIALIZED_SESSIONS'
       /\ Cardinality(DOMAIN RUNNER_CACHE') <= Cardinality(StartedKeys')]_vars

\* C10 witness: one turn has returned an error and another a response, for
\* two keys that are both still cached and marked initialised.
CachesOnlyGrowWitness ==
    \E t1, t2 \in Turns :
        /\ pc[t1] = "done" /\ result[t1].kind = "error"
        /\ pc[t2] = "done" /\ result[t2].kind = "response"
        /\ Key(t1) # Key(t2)
        /\ {Key(t1), Key(t2)} \subseteq DOMAIN RUNNER_CACHE
        /\ {Key(t1), Key(t2)} \subseteq INITIALIZED_SESSIONS

FirstTurn(k) ==
    CHOOSE t \in Turns :
        /\ pc[t] # "idle" /\ Key(t) = k
        /\ \A s \in Turns : s < t => Key(s) # k

\* C3: two get_runner calls for one key, one after the other and with any
\* two tiers, return the same Runner, built with the instruction of the
\* first call's tier; the second call constructs nothing and leaves the
\* cache entry as it was.
SameRunnerAcrossTiers ==
    \A t1, t2 \in Turns :
        (/\ t1 < t2
         /\ Key(t1) = Key(t2)
         /\ pc[t2] \notin {"idle", "get_runner"})
            => /\ runner[t2] = runner[t1]
               /\ RUNNER_CACHE[Key(t2)] = runner[t1]
               /\ Cardinality(BuiltFor(Key(t2))) = 1
               /\ runners[runner[t2]].instruction =
                      get_system_prompt(level[FirstTurn(Key(t2))])

\* C3 witness: the second call has returned for a key whose first call came
\* with another tier, one with a different system prompt.
SameRunnerAcrossTiersWitness ==
    \E t1, t2 \in Turns :
        /\ t1 < t2
        /\ Key(t1) = Key(t2)
        /\ pc[t2] = "ensure_session"
        /\ get_system_prompt(level[t1]) # get_system_prompt(level[t2])
        /\ runner[t2] = RUNNER_CACHE[Key(t2)]

\* C4: whether create_session returns or raises, a turn that is past its
\* session initialisation has its key in INITIALIZED_SESSIONS and has been
\* handed no error for it (an error result comes from the generation call
\* only), and an initialisation that follows for the same key makes no
\* further create_session call.
SessionInitFailOpen ==
    /\ \A t \in Turns :
           pc[t] \in {"generate", "streaming", "done"}
               => /\ Key(t) \in INITIALIZED_SESSIONS
                  /\ result[t].kind = "error" => ending[t].kind = "raise"
    /\ \A k \in Keys : createCalls[k] <= 1

\* C4 witness: a second turn is past its session initialisation for a key
\* whose only create_session call, made by the first turn, raised.
SessionInitFailOpenWitness ==
    \E t1, t2 \in Turns :
        /\ t1 < t2
        /\ Key(t1) = Key(t2)
        /\ pc[t2] = "generate"
        /\ createCalls[Key(t2)] = 1
        /\ runners[runner[t2]].sessions = {}
        /\ result[t2] = NoResult

\* ------------------------------------------------- claims on aggregation
IsPlain(e) == e.text.kind = "str" /\ e.text.s # <<>>
IsStructured(e) ==
    /\ ~IsPlain(e)
    /\ e.content.kind = "obj"
    /\ e.content.parts.kind = "list"

\* Inspecting e raises inside the try of line 222.
Raises(e) ==
    /\ ~IsPlain(e)
    /\ IF e.content.kind = "absent" THEN FALSE
       ELSE IF e.content.kind = "none" THEN TRUE
       ELSE IF e.content.parts.kind # "list" THEN TRUE
       ELSE \E i \in 1 .. Len(e.content.parts.items) :
                e.content.parts.items[i].kind = "none"
Inspectable(e) == ~Raises(e)

RECURSIVE Flatten(_)
Flatten(ss) == IF ss = <<>> THEN <<>> ELSE Head(ss) \o Flatten(Tail(ss))

\* the texts of the parts that carry text, in order
PartTexts(items) ==
    Flatten([i \in 1 .. Len(items) |->
                IF items[i].kind = "str" THEN items[i].s ELSE <<>>])

EventTexts(e) ==
    IF IsStructured(e) THEN PartTexts(e.content.parts.items) ELSE <<>>

LastPlain(es) ==
    IF \E i \in 1 .. Len(es) : IsPlain(es[i])
        THEN CHOOSE i \in 1 .. Len(es) :
                 /\ IsPlain(es[i])
                 /\ \A j \in 1 .. Len(es) : IsPlain(es[j]) => j <= i
        ELSE 0

ExpectedReply(es) ==
    LET lp == LastPlain(es)
    IN  (IF lp = 0 THEN <<>> ELSE es[lp].text.s)
            \o Flatten([i \in 1 .. (Len(es) - lp) |-> EventTexts(es[lp + i])])

\* chat, lines 219-227: the whole loop over a finished list of events.
RECURSIVE AggregateFrom(_, _)
AggregateFrom(acc, es) ==
    IF es = <<>> THEN acc
    ELSE AggregateFrom(HandleEvent(acc, Head(es)), Tail(es))
Aggregate(es) == AggregateFrom(<<>>, es)

Streamed(t) == pc[t] \in {"streaming", "done"}

\* C5: over a sequence of plain-text, structured (text parts only) and
\* unrecognized events the aggregated reply is the text of the last
\* plain-text event, or the empty string if there is none, followed by the
\* part texts, in order, of the structured events after it.
LastPlainTextWins ==
    \A t \in Turns :
        (Streamed(t)
         /\ \A i \in 1 .. Len(events[t]) : events[t][i] \in WellFormedEvents)
            => /\ final[t] = ExpectedReply(events[t])
               /\ ending[t].kind = "end"
                      => result[t] = Response(ExpectedReply(events[t]))

\* C5 witness: a turn has returned the reply to a structured event, then a
\* plain-text event, then a structured event of two parts.
LastPlainTextWinsWitness ==
    \E t \in Turns :
        /\ pc[t] = "done" /\ result[t].kind = "response"
        /\ Len(events[t]) = 3
        /\ IsStructured(events[t][1]) /\ EventTexts(events[t][1]) # <<>>
        /\ IsPlain(events[t][2])
        /\ IsStructured(events[t][3])
        /\ EventTexts(events[t][3]) = <<"b", "a">>
        /\ result[t].body = events[t][2].text.s \o <<"b", "a">>

\* C6: an event whose inspection raises is skipped as a whole: the
\* aggregate of a stream equals the aggregate of the same stream without
\* its faulty events.
FaultyEventSkipped ==
    \A t \in Turns :
        Streamed(t)
            => final[t] = Aggregate(SelectSeq(events[t], Inspectable))

\* C7: a structured event appends the text of every part that carries
\* text, in order, wherever its parts without text sit: over a stream of
\* structured events the accumulator is the concatenation of all of them.
TextPartsAppended ==
    \A t \in Turns :
        (Streamed(t)
         /\ \A i \in 1 .. Len(events[t]) : IsStructured(events[t][i]))
            => final[t] =
                   Flatten([i \in 1 .. Len(events[t]) |->
                               EventTexts(events[t][i])])

\* C8: a turn returns an error exactly when the generation call raised, and
\* the error then carries the message alone; in every other case it returns
\* a response that carries the aggregate of the events received.
ErrorOnlyFromGeneration ==
    \A t \in Turns :
        pc[t] = "done"
            => IF ending[t].kind = "raise"
                   THEN result[t] = Error(ending[t].msg)
                   ELSE result[t] = Response(Aggregate(events[t]))

\* C8 witness: the stream raised after a broken event and after events that
\* had aggregated text, in a turn whose create_session call had raised.
ErrorOnlyFromGenerationWitness ==
    \E t \in Turns :
        /\ pc[t] = "done" /\ result[t].kind = "error"
        /\ final[t] # <<>>
        /\ \E i \in 1 .. Len(events[t]) : events[t][i] \in BrokenEvents
        /\ runners[runner[t]].sessions = {}

\* --------------------------------------------------- claims on the prompt
Tiers == {"Beginner", "Intermediate", "Expert"}
Sentences(prompt) == {prompt[i] : i \in 1 .. Len(prompt)}

\* the Runner turn t has just built (lines 113-123), before it is stored
Built(t) == runners[runner[t]]

\* C11: for a user whose stored tier is missing or is none of Beginner,
\* Intermediate and Expert, the Runner built for the conversation carries
\* the system instruction built for tier Beginner.
UnknownTierGetsBeginner ==
    \A t \in Turns :
        (pc[t] = "store" /\ stored[t] \notin Tiers)
            => Built(t).instruction = get_system_prompt("Beginner")

\* C13: the prompt of every tier holds the three base directives; the
\* Beginner prompt holds an explanatory suffix that the Expert prompt does
\* not hold; the Intermediate prompt is the base prompt and nothing else.
PromptPerTier ==
    \A t \in Turns :
        pc[t] = "store"
            => LET said == Sentences(Built(t).instruction)
               IN  /\ {"1. Ask for Format if missing.",
                       "2. Use get_usage_stats for data.",
                       "3. OUTPUT TEAMS IN SHOWDOWN IMPORTABLE FORMAT INSIDE CODE BLOCKS."}
                          \subseteq said
                   /\ level[t] = "Beginner"
                          => "Explain terms (STAB, EVs). Be educational." \in said
                   /\ level[t] = "Expert"
                          => "Explain terms (STAB, EVs). Be educational." \notin said
                   /\ level[t] = "Intermediate"
                          => Built(t).instruction = base_prompt

\* C13 witness: Runners have been built for an Expert and for a Beginner,
\* and their instructions differ.
PromptPerTierWitness ==
    \E t1, t2 \in Turns :
        /\ pc[t1] = "done" /\ level[t1] = "Expert" /\ runner[t1] = 1
        /\ pc[t2] = "store" /\ level[t2] = "Beginner"
        /\ runners[1].instruction # Built(t2).instruction

\* ------------------------------------------------------ claims on the tools
\* the JSON a tool is written for: a dict of usage, a list of teams
Expected(n) ==
    IF n = "get_usage_stats" THEN {"json_object"} ELSE {"json_array"}

NotFound(n, clean_format) ==
    IF n = "get_usage_stats"
        THEN Str(<<"Stats not found for ">> \o clean_format \o <<".">>)
        ELSE Str(<<"No samples for ">> \o clean_format \o <<".">>)

\* C12: whatever the GET comes to, each tool returns a string, and on every
\* failing outcome (network error, non-2xx, not JSON, JSON of an unexpected
\* shape) that string is the tool's not-found message.
ToolsFailClosed ==
    \A n \in ToolNames :
        tool[n].pc = "returned"
            => /\ tool[n].ret.kind = "str"
               /\ tool[n].outcome \notin Expected(n)
                      => tool[n].ret = NotFound(n, tool[n].clean_format)

\* C18: both tools normalise their format argument alike (lowercase, strip,
\* remove spaces, any identifier containing gen9ou becomes gen9ou), so on
\* one input both query the host under the same identifier.
SameIdentifier ==
    /\ \A n \in ToolNames :
           (tool[n].pc # "idle" /\ Contains(tool[n].clean_format, gen9ou))
               => tool[n].clean_format = gen9ou
    /\ (\A n \in ToolNames : tool[n].pc # "idle")
           => tool["get_usage_stats"].clean_format
                  = tool["get_sample_teams"].clean_format

\* ------------------------------------------- claims on interleaved turns
\* C14: if create_session raises only when the session is already in the
\* store of the Runner it is called on, then whenever a turn has its
\* generation call in flight on a Runner, a session for the turn's key is
\* in that Runner's own session store.
SessionWhereGenerated ==
    \A t \in Turns : pc[t] = "streaming" => SessionExists(t)

\* C15: every turn whose create_session call returns or raises and whose
\* stream is finite returns in the end (again and again no turn is in
\* flight: each turn that has started has returned a result), and it
\* returns one result: once set, the result of a turn does not change.
TurnsReturn ==
    /\ []<>(\A t \in Turns :
                pc[t] = "idle" \/ (pc[t] = "done" /\ result[t] # NoResult))
    /\ [][\A t \in Turns : result[t] # NoResult => result'[t] = result[t]]_vars

\* C15 witness: a turn has returned after a faulty event while another turn
\* of the same key is still suspended in create_session.
TurnsReturnWitness ==
    \E t1, t2 \in Turns :
        /\ pc[t1] = "done" /\ result[t1] # NoResult
        /\ \E i \in 1 .. Len(events[t1]) : Raises(events[t1][i])
        /\ pc[t2] = "await_create"
        /\ Key(t1) = Key(t2)

\* C16: every key in INITIALIZED_SESSIONS is a key of RUNNER_CACHE.
InitialisedAreCached == INITIALIZED_SESSIONS \subseteq DOMAIN RUNNER_CACHE

\* C16 witness: both keys are marked initialised, one of them after a
\* create_session call that left no session in the cached Runner.
InitialisedAreCachedWitness ==
    /\ INITIALIZED_SESSIONS = Keys
    /\ Keys \subseteq DOMAIN RUNNER_CACHE
    /\ \E k \in Keys : runners[RUNNER_CACHE[k]].sessions = {}

EntryChanged(k) ==
    \/ (k \in INITIALIZED_SESSIONS) # (k \in INITIALIZED_SESSIONS')
    \/ (k \in DOMAIN RUNNER_CACHE) # (k \in DOMAIN RUNNER_CACHE')
    \/ /\ k \in DOMAIN RUNNER_CACHE
       /\ k \in DOMAIN RUNNER_CACHE'
       /\ RUNNER_CACHE[k] # RUNNER_CACHE'[k]

\* turn t takes the step
Stepping(t) == pc'[t] # pc[t] \/ events'[t] # events[t]

\* C17: a step of a turn for key k changes the RUNNER_CACHE entry and the
\* INITIALIZED_SESSIONS membership of no other key; distinct users have
\* distinct keys; and the Runner a turn runs on was built for its own key.
TurnsKeepToTheirKey ==
    [][/\ \A k \in Keys :
              EntryChanged(k)
                  => \E t \in Turns : Stepping(t) /\ session_id(user'[t]) = k
       /\ \A u1, u2 \in Users : u1 # u2 => session_id(u1) # session_id(u2)
       /\ \A t \in Turns :
              runner'[t] # 0 => builtFor'[runner'[t]] = session_id(user'[t])
      ]_vars

\* C17 witness: turns of two users have run to their end on two Runners,
\* each cached under its own key.
TurnsKeepToTheirKeyWitness ==
    \E t1, t2 \in Turns :
        /\ user[t1] # user[t2]
        /\ pc[t1] = "done" /\ pc[t2] = "done"
        /\ runner[t1] # runner[t2]
        /\ RUNNER_CACHE[Key(t1)] = runner[t1]
        /\ RUNNER_CACHE[Key(t2)] = runner[t2]
        /\ INITIALIZED_SESSIONS = {Key(t1), Key(t2)}

====
